---- MODULE Spec2Model ----
(***************************************************************************)
(* Model of the table column resizer (useTableColumnResize), the parts of  *)
(* TableView / TableVirtualizer / ResizableTableColumnHeader that drive it *)
(* (resize mode, resizer focus, header/body scroll synchronisation,        *)
(* renderView), and of the Meter and Picker behaviour exercised by the     *)
(* repository's test and story.                                            *)
(***************************************************************************)
EXTENDS Integers, Sequences, FiniteSets, TLC

\* ------------------------------------------------------------------ bounds
StepsBelow == 1        \* resize events ask for widths down to this many steps below the minimum
StepsAbove == 1        \* ... and up to this many steps above it
MaxScroll == 1         \* scrollLeft ranges over 0..MaxScroll

\* ------------------------------------------------------- program constants
MinColumnWidth == 75   \* getDefaultMinWidth
KeyboardStep == 10     \* onMove: deltaX *= 10 for keyboard moves
ChangeStep == 10       \* onChange: currentWidth +/- 10

Item == "a"                     \* key of the column this resizer belongs to
Columns == {"a", "b"}
PointerTypes == {"mouse", "touch", "pen"}
PressTypes == {"mouse", "touch", "pen", "keyboard", "virtual"}
Keys == {"Escape", "Enter", " ", "Tab", "ArrowLeft", "ArrowRight", "ArrowUp", "ArrowDown", "a"}
Modalities == {"keyboard", "pointer", "virtual"}
MenuKeys == {"sort-asc", "sort-desc", "resize"}
ScrollPositions == 0..MaxScroll
\* pointer moves come in steps of one keyboard step, so all widths share a grid
PointerDeltas == {0 - KeyboardStep, 0, KeyboardStep}
NoKey == "none"                 \* null column key
WidthLo == MinColumnWidth - StepsBelow * KeyboardStep
WidthHi == MinColumnWidth + StepsAbove * KeyboardStep

VARIABLES
  \* useTableColumnResize refs
  isResizing, lastSize, columnResizeWidthRef,
  \* TableColumnResizeState / TableState
  widths, resizingColumn, isKeyboardNavigationDisabled,
  \* props of the hook and environment of the component
  triggerRef, direction, isMobile,
  \* DOM
  focus, moving, headerScrollLeft, bodyScrollLeft, scrollEventPending,
  \* TableView / ResizableTableColumnHeader
  isInResizeMode, tvIsResizing, prevResizingColumn, timeout,
  \* history: the last event handled, the calls it made, callback balance,
  \* the widths map last passed to onResizeStart or onResize
  event, calls, cbOpen, balance, reported,
  \* renderView: the view asked for and what was rendered for it
  viewType, viewItem, view,
  \* Meter: its props and the DOM rendered from them
  meterProps, meter,
  \* Picker: its children, whether it is open, the listbox, document.activeElement
  pickerChildren, pickerOpen, listbox, activeElement,
  \* SelectList: its props, this.state.value, and the last thing it did
  slProps, slValue, slLast

tableVars == <<isResizing, lastSize, columnResizeWidthRef, widths, resizingColumn,
               isKeyboardNavigationDisabled, triggerRef, direction, isMobile, focus,
               moving, headerScrollLeft, bodyScrollLeft, scrollEventPending,
               isInResizeMode, tvIsResizing, prevResizingColumn, timeout,
               event, calls, cbOpen, balance, reported>>
viewVars == <<viewType, viewItem, view>>
meterVars == <<meterProps, meter>>
pickerVars == <<pickerChildren, pickerOpen, listbox, activeElement>>
selectVars == <<slProps, slValue, slLast>>
vars == <<tableVars, viewVars, meterVars, pickerVars, selectVars>>

\* ------------------------------------------------------------ bookkeeping
Max(a, b) == IF a > b THEN a ELSE b

Call(fn, key, width, map) == [fn |-> fn, key |-> key, width |-> width, map |-> map]

Ev(type, key, pt, dx, dy, modified) ==
  [type |-> type, key |-> key, pointerType |-> pt, deltaX |-> dx, deltaY |-> dy,
   modified |-> modified]

NoEvent == Ev("init", "", "", 0, 0, FALSE)

\* the mutable state as one record, so that handlers compose sequentially
St ==
  [isResizing |-> isResizing, lastSize |-> lastSize,
   columnResizeWidthRef |-> columnResizeWidthRef, widths |-> widths,
   resizingColumn |-> resizingColumn,
   isKeyboardNavigationDisabled |-> isKeyboardNavigationDisabled,
   triggerRef |-> triggerRef, direction |-> direction, isMobile |-> isMobile,
   focus |-> focus, moving |-> moving, headerScrollLeft |-> headerScrollLeft,
   bodyScrollLeft |-> bodyScrollLeft, scrollEventPending |-> scrollEventPending,
   isInResizeMode |-> isInResizeMode, tvIsResizing |-> tvIsResizing,
   prevResizingColumn |-> prevResizingColumn, timeout |-> timeout,
   calls |-> <<>>, cbOpen |-> cbOpen, balance |-> balance, reported |-> reported]

Log(t, c) == [t EXCEPT !.calls = Append(t.calls, c)]

\* ------------------------------------------- TableColumnResizeState (state.*)
getColumnWidth(t, key) == t.widths[key]

\* state.onColumnResize(key, width): the new sizes, with the column's width
\* kept at or above its minimum
state_onColumnResize(t, key, width) ==
  LET m == [t.widths EXCEPT ![key] = Max(width, MinColumnWidth)]
  IN Log([t EXCEPT !.widths = m], Call("state.onColumnResize", key, width, <<m>>))

state_onColumnResizeStart(t, key) ==
  Log([t EXCEPT !.resizingColumn = key], Call("state.onColumnResizeStart", key, 0, <<>>))

state_onColumnResizeEnd(t) ==
  Log([t EXCEPT !.resizingColumn = NoKey], Call("state.onColumnResizeEnd", "", 0, <<>>))

setKeyboardNavigationDisabled(t, val) == [t EXCEPT !.isKeyboardNavigationDisabled = val]

\* -------------------------------------------------- TableView callbacks
onResizeStart(t, w) ==
  Log([t EXCEPT !.tvIsResizing = TRUE, !.cbOpen = TRUE, !.balance = @ + 1,
                !.reported = w],
      Call("onResizeStart", "", 0, w))

onResize(t, w) == Log([t EXCEPT !.reported = w], Call("onResize", "", 0, w))

onResizeEnd(t, w) ==
  Log([t EXCEPT !.isInResizeMode = FALSE, !.tvIsResizing = FALSE,
                !.cbOpen = FALSE, !.balance = @ - 1],
      Call("onResizeEnd", "", 0, w))

\* ------------------------------------------------ useTableColumnResize
\* startResize without its check of isResizing
startResize_Unguarded(t) ==
  LET t1 == state_onColumnResize(t, Item, getColumnWidth(t, Item))
      t2 == [t1 EXCEPT !.lastSize = <<t1.widths>>]
      t3 == state_onColumnResizeStart(t2, Item)
      t4 == onResizeStart(t3, t3.lastSize)
  IN [t4 EXCEPT !.isResizing = TRUE]

\* startResize announcing the start to the state before asking it for sizes
startResize_StartFirst(t) ==
  IF ~t.isResizing
    THEN LET t1 == state_onColumnResizeStart(t, Item)
             t2 == state_onColumnResize(t1, Item, getColumnWidth(t1, Item))
             t3 == [t2 EXCEPT !.lastSize = <<t2.widths>>]
             t4 == onResizeStart(t3, t3.lastSize)
         IN [t4 EXCEPT !.isResizing = TRUE]
    ELSE [t EXCEPT !.isResizing = TRUE]

startResize(t) ==
  IF ~t.isResizing
    THEN LET t1 == state_onColumnResize(t, Item, getColumnWidth(t, Item))
             t2 == [t1 EXCEPT !.lastSize = <<t1.widths>>]
             t3 == state_onColumnResizeStart(t2, Item)
             t4 == onResizeStart(t3, t3.lastSize)
         IN [t4 EXCEPT !.isResizing = TRUE]
    ELSE [t EXCEPT !.isResizing = TRUE]

\* resize handing onResize the sizes of the event before
resize_StaleSizes(t, newWidth) ==
  LET t1 == state_onColumnResize(t, Item, newWidth)
      t2 == onResize(t1, t.lastSize)
  IN [t2 EXCEPT !.lastSize = <<t1.widths>>]

\* resize without its update of lastSize
resize_KeepsLastSize(t, newWidth) ==
  LET t1 == state_onColumnResize(t, Item, newWidth)
  IN onResize(t1, <<t1.widths>>)

resize(t, newWidth) ==
  LET t1 == state_onColumnResize(t, Item, newWidth)
      sizes == <<t1.widths>>
      t2 == onResize(t1, sizes)
  IN [t2 EXCEPT !.lastSize = sizes]

\* endResize without its check of isResizing
endResize_Unguarded(t) ==
  LET t1 == IF t.lastSize = <<>>
              THEN LET u == state_onColumnResize(t, Item, getColumnWidth(t, Item))
                   IN [u EXCEPT !.lastSize = <<u.widths>>]
              ELSE t
      t2 == onResizeEnd(state_onColumnResizeEnd(t1), t1.lastSize)
  IN [t2 EXCEPT !.isResizing = FALSE, !.lastSize = <<>>]

\* endResize that leaves the refs alone when no session is active
endResize_EarlyReturn(t) ==
  IF t.isResizing
    THEN LET t1 == onResizeEnd(state_onColumnResizeEnd(t), t.lastSize)
         IN [t1 EXCEPT !.isResizing = FALSE, !.lastSize = <<>>]
    ELSE t

endResize(t) ==
  LET t1 == IF t.lastSize = <<>>
              THEN LET u == state_onColumnResize(t, Item, getColumnWidth(t, Item))
                   IN [u EXCEPT !.lastSize = <<u.widths>>]
              ELSE t
      t2 == IF t1.isResizing
              THEN onResizeEnd(state_onColumnResizeEnd(t1), t1.lastSize)
              ELSE t1
  IN [t2 EXCEPT !.isResizing = FALSE, !.lastSize = <<>>]

onBlur(t) == setKeyboardNavigationDisabled(endResize(t), FALSE)

\* focusSafely(triggerRef.current): focus moves to the trigger; when it leaves
\* the hidden input, the input's blur handler runs
focusSafely(t) ==
  IF t.focus = "input"
    THEN [onBlur(t) EXCEPT !.focus = "trigger"]
    ELSE [t EXCEPT !.focus = "trigger"]

focusInput(t) == [t EXCEPT !.focus = "input"]

onMoveStart(t) ==
  startResize([t EXCEPT !.columnResizeWidthRef = getColumnWidth(t, Item)])

\* the horizontal delta onMove works with after its adjustments
EffectiveDelta(dir, dx, dy, pointerType) ==
  LET d1 == IF dir = "rtl" THEN dx * (0 - 1) ELSE dx
      d2 == IF pointerType = "keyboard"
              THEN (IF dy # 0 /\ d1 = 0 THEN dy * (0 - 1) ELSE d1) * KeyboardStep
              ELSE d1
  IN d2

onMove(t, dx, dy, pointerType) ==
  LET d == EffectiveDelta(t.direction, dx, dy, pointerType)
  IN IF d # 0
       THEN LET t1 == [t EXCEPT !.columnResizeWidthRef = @ + d]
            IN resize(t1, t1.columnResizeWidthRef)
       ELSE t

\* onMoveEnd ending the session for every pointer type
onMoveEnd_AnyPointer(t, pointerType) ==
  endResize([t EXCEPT !.columnResizeWidthRef = 0])

onMoveEnd(t, pointerType) ==
  LET t1 == [t EXCEPT !.columnResizeWidthRef = 0]
  IN IF pointerType = "mouse" THEN endResize(t1) ELSE t1

onChange(t, value) ==
  LET currentWidth == getColumnWidth(t, Item)
      nextValue == IF value > currentWidth THEN currentWidth + ChangeStep
                                           ELSE currentWidth - ChangeStep
  IN resize(t, nextValue)


\* useMove's keyboard handling: an arrow key is one complete move
ArrowDelta(key) ==
  CASE key = "ArrowLeft" -> <<0 - 1, 0>>
    [] key = "ArrowRight" -> <<1, 0>>
    [] key = "ArrowUp" -> <<0, 0 - 1>>
    [] key = "ArrowDown" -> <<0, 1>>
    [] OTHER -> <<0, 0>>

moveProps_onKeyDown(t, key) ==
  IF key \in {"ArrowLeft", "ArrowRight", "ArrowUp", "ArrowDown"}
    THEN LET d == ArrowDelta(key)
         IN onMoveEnd(onMove(onMoveStart(t), d[1], d[2], "keyboard"), "keyboard")
    ELSE t

\* the key handler without Tab among the keys that end edit mode
keyboardProps_onKeyDown_NoTab(t, key) ==
  IF t.isKeyboardNavigationDisabled
    THEN IF t.triggerRef /\ key \in {"Escape", "Enter", " "}
           THEN focusSafely(t)
           ELSE t
    ELSE IF key = "Enter"
           THEN setKeyboardNavigationDisabled(startResize(t), TRUE)
           ELSE t

\* useKeyboard.onKeyDown of the resizer
keyboardProps_onKeyDown(t, key) ==
  IF t.isKeyboardNavigationDisabled
    THEN IF t.triggerRef /\ key \in {"Escape", "Enter", " ", "Tab"}
           THEN focusSafely(t)
           ELSE t
    ELSE IF key = "Enter"
           THEN setKeyboardNavigationDisabled(startResize(t), TRUE)
           ELSE t

\* resizerProps.onKeyDown: keyboardProps' handler chained with the hook's own
\* onKeyDown; editModeEnabled is the value the handlers were rendered with
onKeyDown(t, key) ==
  LET editModeEnabled == t.isKeyboardNavigationDisabled
      t1 == keyboardProps_onKeyDown(t, key)
  IN IF editModeEnabled THEN moveProps_onKeyDown(t1, key) ELSE t1

onPressStart(t, pointerType, modified) ==
  IF modified \/ pointerType = "keyboard"
    THEN t
    ELSE IF pointerType = "virtual" /\ t.resizingColumn # NoKey
           THEN LET t1 == endResize(t)
                IN IF t1.triggerRef THEN focusSafely(t1) ELSE t1
           ELSE focusInput(t)

onPress(t, pointerType) ==
  IF pointerType = "touch"
    THEN focusInput(t)
    ELSE IF pointerType # "virtual" /\ pointerType # "keyboard"
           THEN (IF t.triggerRef THEN focusSafely(t) ELSE t)
           ELSE t

\* ------------------------------------- ResizableTableColumnHeader / TableView
sort(t, dir) == Log(t, Call("state.sort", Item, 0, <<>>))

onMenuSelect(t, key) ==
  CASE key = "sort-asc" -> sort(t, "ascending")
    [] key = "sort-desc" -> sort(t, "descending")
    [] key = "resize" ->
         [state_onColumnResizeStart(t, Item) EXCEPT !.isInResizeMode = TRUE]
    [] OTHER -> t

onFocusedResizer(t) == [t EXCEPT !.bodyScrollLeft = t.headerScrollLeft]

\* the timeout callback: resizingRef.current.focus() may scroll the header to
\* reveal the input (to position x), then the body is synchronised to it
focusResizer(t, x) ==
  LET t1 == [t EXCEPT !.focus = "input", !.headerScrollLeft = x]
      t2 == onFocusedResizer(t1)
  IN [t2 EXCEPT !.timeout = FALSE]

\* the effect on [resizingColumn, ...] of ResizableTableColumnHeader
resizingColumnEffect(t) ==
  IF t.prevResizingColumn # t.resizingColumn /\ t.resizingColumn # NoKey
     /\ t.resizingColumn = Item
    THEN IF t.isMobile
           THEN [t EXCEPT !.timeout = TRUE]
           ELSE [t EXCEPT !.timeout = TRUE, !.prevResizingColumn = t.resizingColumn]
    ELSE [t EXCEPT !.prevResizingColumn = t.resizingColumn]

\* the table re-renders, and its effects run, when state it renders from changed
Rendered(t) ==
  IF <<t.resizingColumn, t.widths, t.isInResizeMode, t.tvIsResizing,
       t.isKeyboardNavigationDisabled>>
     # <<resizingColumn, widths, isInResizeMode, tvIsResizing,
         isKeyboardNavigationDisabled>>
    THEN resizingColumnEffect(t)
    ELSE t

\* ------------------------------------------------------- TableVirtualizer
onScroll(t) == [t EXCEPT !.headerScrollLeft = t.bodyScrollLeft, !.scrollEventPending = FALSE]

\* scrollToItem copying the body's position before the virtualizer has scrolled
scrollToItem_SyncFirst(t, x) ==
  LET t1 == [t EXCEPT !.headerScrollLeft = t.bodyScrollLeft]
  IN [t1 EXCEPT !.bodyScrollLeft = x]

\* scrollToItem: the virtualizer scrolls the body to x, then the header is
\* synchronised; scrollIntoViewport then scrolls the containers around the table
scrollToItem(t, x) ==
  LET t1 == [t EXCEPT !.bodyScrollLeft = x]
  IN [t1 EXCEPT !.headerScrollLeft = t1.bodyScrollLeft]

\* the effect on [state.contentSize, ...]: scrollIntoView moves the header to x
contentSizeEffect(t, modality, x) ==
  IF modality = "keyboard" /\ t.focus \in {"input", "trigger"}
    THEN LET t1 == [t EXCEPT !.headerScrollLeft = x]
         IN [t1 EXCEPT !.bodyScrollLeft = t1.headerScrollLeft]
    ELSE t

\* ------------------------------------------------------------------ actions
Commit(t, e) ==
  /\ isResizing' = t.isResizing
  /\ lastSize' = t.lastSize
  /\ columnResizeWidthRef' = t.columnResizeWidthRef
  /\ widths' = t.widths
  /\ resizingColumn' = t.resizingColumn
  /\ isKeyboardNavigationDisabled' = t.isKeyboardNavigationDisabled
  /\ triggerRef' = t.triggerRef
  /\ direction' = t.direction
  /\ isMobile' = t.isMobile
  /\ focus' = t.focus
  /\ moving' = t.moving
  /\ headerScrollLeft' = t.headerScrollLeft
  /\ bodyScrollLeft' = t.bodyScrollLeft
  /\ scrollEventPending' = t.scrollEventPending
  /\ isInResizeMode' = t.isInResizeMode
  /\ tvIsResizing' = t.tvIsResizing
  /\ prevResizingColumn' = t.prevResizingColumn
  /\ timeout' = t.timeout
  /\ calls' = t.calls
  /\ cbOpen' = t.cbOpen
  /\ balance' = t.balance
  /\ reported' = t.reported
  /\ event' = e
  /\ UNCHANGED <<viewVars, meterVars, pickerVars, selectVars>>

\* every width asked of state.onColumnResize during the handler is in range
InRange(t) ==
  /\ t.columnResizeWidthRef = 0 \/ t.columnResizeWidthRef \in WidthLo..WidthHi
  /\ \A i \in 1..Len(t.calls) :
       t.calls[i].fn = "state.onColumnResize" => t.calls[i].width \in WidthLo..WidthHi

Handle(t, e) ==
  LET r == Rendered(t)
  IN InRange(r) /\ Commit(r, e)

KeyDown ==
  \E key \in Keys :
    /\ focus = "input"
    /\ Handle(onKeyDown(St, key), Ev("keydown", key, "keyboard", 0, 0, FALSE))

\* useMove: the first movement of a pointer gesture starts the move
PointerMove ==
  \E pt \in PointerTypes, dx \in PointerDeltas, dy \in PointerDeltas :
    /\ <<dx, dy>> # <<0, 0>>
    /\ moving \in {"none", pt}
    /\ LET t0 == IF moving = "none" THEN onMoveStart([St EXCEPT !.moving = pt]) ELSE St
       IN Handle(onMove(t0, dx, dy, pt), Ev("move", "", pt, dx, dy, FALSE))

PointerUp ==
  /\ moving # "none"
  /\ Handle(onMoveEnd([St EXCEPT !.moving = "none"], moving), Ev("moveend", "", moving, 0, 0, FALSE))

\* the input reports a value above, equal to or below the column's width
Change ==
  \E d \in {0 - 1, 0, 1} :
    LET value == getColumnWidth(St, Item) + d
    IN Handle(onChange(St, value), Ev("change", "", "", d, 0, FALSE))

PressStart ==
  \E pt \in PressTypes, modified \in BOOLEAN :
    Handle(onPressStart(St, pt, modified), Ev("pressstart", "", pt, 0, 0, modified))

Press ==
  \E pt \in PressTypes :
    Handle(onPress(St, pt), Ev("press", "", pt, 0, 0, FALSE))

\* the hidden input loses focus to something other than the trigger
Blur ==
  /\ focus = "input"
  /\ Handle([onBlur(St) EXCEPT !.focus = "other"], Ev("blur", "", "", 0, 0, FALSE))

\* keyboard navigation in the header row reaches the resizer's input
FocusIn ==
  /\ focus # "input"
  /\ Handle(focusInput(St), Ev("focus", "", "", 0, 0, FALSE))

\* the column header menu exists when the header has a trigger button
MenuSelect ==
  \E key \in MenuKeys :
    /\ triggerRef
    /\ focus # "input"
    /\ Handle(onMenuSelect(St, key), Ev("menu", key, "", 0, 0, FALSE))

\* the timer fires; focusing the input leaves the header at a position in S
FocusResizerAt(S) ==
  \E x \in S :
    /\ timeout
    /\ Handle(focusResizer(St, x), Ev("focusResizer", "", "", 0, 0, FALSE))

\* the input is in view already: focusing it scrolls nothing
FocusResizerTimeout == FocusResizerAt({headerScrollLeft})

\* the input may be out of view: focusing it scrolls the header
FocusResizerScrolling == FocusResizerAt(ScrollPositions)

\* the user scrolls the body; its scroll event is delivered afterwards
BodyScrolled ==
  \E x \in ScrollPositions :
    /\ x # bodyScrollLeft
    /\ Handle([St EXCEPT !.bodyScrollLeft = x, !.scrollEventPending = TRUE],
              Ev("scrolled", "", "", 0, 0, FALSE))

Scroll ==
  /\ scrollEventPending
  /\ Handle(onScroll(St), Ev("onScroll", "", "", 0, 0, FALSE))

ScrollToItem ==
  \E x \in ScrollPositions :
    Handle(scrollToItem(St, x), Ev("scrollToItem", "", "", 0, 0, FALSE))

ContentSizeChanged ==
  \E x \in ScrollPositions, modality \in Modalities :
    /\ contentSizeEffect(St, modality, x) # St
    /\ Handle(contentSizeEffect(St, modality, x), Ev("contentSize", "", "", 0, 0, FALSE))

TableInit ==
  /\ isResizing = FALSE
  /\ lastSize = <<>>
  /\ columnResizeWidthRef = 0
  /\ widths = [c \in Columns |-> MinColumnWidth + ChangeStep]
  /\ resizingColumn = NoKey
  /\ isKeyboardNavigationDisabled = FALSE
  /\ triggerRef \in BOOLEAN
  /\ direction \in {"ltr", "rtl"}
  /\ isMobile \in {b \in BOOLEAN : b => triggerRef}
  /\ focus = "other"
  /\ moving = "none"
  /\ headerScrollLeft = 0
  /\ bodyScrollLeft = 0
  /\ scrollEventPending = FALSE
  /\ isInResizeMode = FALSE
  /\ tvIsResizing = FALSE
  /\ prevResizingColumn = NoKey
  /\ timeout = FALSE
  /\ event = NoEvent
  /\ calls = <<>>
  /\ cbOpen = FALSE
  /\ balance = 0
  /\ reported = <<>>

\* nothing asked of renderView yet, no Meter and no Picker on the page
NoItem == [isSelectionCell |-> FALSE, hideHeader |-> FALSE, allowsResizing |-> FALSE,
           hasChildNodes |-> FALSE]
NoView == [component |-> "", warned |-> FALSE]
ViewIdle == viewType = "" /\ viewItem = NoItem /\ view = NoView

NoMeter == [role |-> "", ariaValueNow |-> <<>>, value |-> <<>>, barWidth |-> <<>>]
MeterIdle == meterProps = [value |-> 0, minValue |-> 0, maxValue |-> 0] /\ meter = NoMeter

NoListbox == [groups |-> <<>>, options |-> <<>>]
PickerIdle ==
  pickerChildren = <<>> /\ pickerOpen = FALSE /\ listbox = NoListbox /\ activeElement = "body"

\* a value of the SelectList: undefined, an array, or a single option value
Undefined == [kind |-> "undefined", list |-> <<>>, scalar |-> ""]
ListValue(q) == [kind |-> "list", list |-> q, scalar |-> ""]
Scalar(v) == [kind |-> "scalar", list |-> <<>>, scalar |-> v]

NoSelect == [op |-> "none", option |-> "", next |-> Undefined]
SelectIdle ==
  /\ slProps = [multiple |-> FALSE, hasValue |-> FALSE, value |-> Undefined]
  /\ slValue = Undefined
  /\ slLast = NoSelect

Init == TableInit /\ ViewIdle /\ MeterIdle /\ PickerIdle /\ SelectIdle

Next ==
  \/ KeyDown
  \/ PointerMove
  \/ PointerUp
  \/ Change
  \/ PressStart
  \/ Press
  \/ Blur
  \/ FocusIn
  \/ MenuSelect
  \/ FocusResizerTimeout

Spec == Init /\ [][Next]_vars

\* the header and body scroll positions, and everything that moves them
NextScroll ==
  \/ BodyScrolled
  \/ Scroll
  \/ ScrollToItem
  \/ ContentSizeChanged
  \/ MenuSelect
  \/ FocusResizerScrolling
  \/ FocusIn
  \/ Blur

SpecScroll == Init /\ [][NextScroll]_vars


\* ------------------------------------------------- TableView.renderView
ViewTypes == {"header", "rowgroup", "section", "row", "headerrow", "cell",
              "placeholder", "column", "loader", "empty"}
Items == [isSelectionCell : BOOLEAN, hideHeader : BOOLEAN, allowsResizing : BOOLEAN,
          hasChildNodes : BOOLEAN]

\* renderView with the hasChildNodes test left out
renderView_IgnoresChildNodes(type, item, emptyState) ==
  CASE type \in {"header", "rowgroup", "section", "row", "headerrow"} -> "null"
    [] type = "cell" -> IF item.isSelectionCell THEN "TableCheckboxCell" ELSE "TableCell"
    [] type = "placeholder" -> "div"
    [] type = "column" ->
         IF item.isSelectionCell THEN "TableSelectAllCell"
         ELSE IF item.hideHeader THEN "TooltipTrigger"
         ELSE IF item.allowsResizing THEN "ResizableTableColumnHeader"
         ELSE "TableColumnHeader"
    [] type = "loader" -> "CenteredWrapper"
    [] type = "empty" -> IF emptyState THEN "CenteredWrapper" ELSE "null"

\* the component renderView returns for a view of the given type
renderView(type, item, emptyState) ==
  CASE type \in {"header", "rowgroup", "section", "row", "headerrow"} -> "null"
    [] type = "cell" -> IF item.isSelectionCell THEN "TableCheckboxCell" ELSE "TableCell"
    [] type = "placeholder" -> "div"
    [] type = "column" ->
         IF item.isSelectionCell THEN "TableSelectAllCell"
         ELSE IF item.hideHeader THEN "TooltipTrigger"
         ELSE IF item.allowsResizing /\ ~item.hasChildNodes THEN "ResizableTableColumnHeader"
         ELSE "TableColumnHeader"
    [] type = "loader" -> "CenteredWrapper"
    [] type = "empty" -> IF emptyState THEN "CenteredWrapper" ELSE "null"

\* the elements a component renders inside itself
Elements(component) ==
  CASE component = "ResizableTableColumnHeader" ->
         {"MenuTrigger", "TableColumnHeaderButton", "Menu", "Resizer"}
    [] component = "TooltipTrigger" -> {"TableColumnHeader", "Tooltip"}
    [] OTHER -> {}

\* TableColumnHeader's effect: the console warning
TableColumnHeader(component, item) ==
  /\ component = "TableColumnHeader" \/ "TableColumnHeader" \in Elements(component)
  /\ item.hasChildNodes /\ item.allowsResizing

RenderView ==
  \E emptyState \in BOOLEAN :
    LET c == renderView(viewType, viewItem, emptyState)
    IN /\ view' = [component |-> c, warned |-> TableColumnHeader(c, viewItem)]
       /\ UNCHANGED <<viewType, viewItem, tableVars, meterVars, pickerVars, selectVars>>

\* the collection changes: another node is about to be rendered
SetItem ==
  \E type \in ViewTypes, item \in Items :
    /\ view # NoView
    /\ viewType' = type /\ viewItem' = item /\ view' = NoView
    /\ UNCHANGED <<tableVars, meterVars, pickerVars, selectVars>>

TableIdle == TableInit /\ triggerRef /\ ~isMobile /\ direction = "ltr"

ViewInit ==
  /\ TableIdle /\ MeterIdle /\ PickerIdle /\ SelectIdle
  /\ viewType \in ViewTypes /\ viewItem \in Items /\ view = NoView

NextView == RenderView \/ SetItem

SpecView == ViewInit /\ [][NextView]_vars

\* ------------------------------------------------------------------ Meter
DigitChars == <<"0", "1", "2", "3", "4", "5", "6", "7", "8", "9">>

\* a number as its decimal text
RECURSIVE ToDigits(_)
ToDigits(n) ==
  IF n < Len(DigitChars)
    THEN <<DigitChars[n + 1]>>
    ELSE ToDigits(n \div Len(DigitChars)) \o <<DigitChars[(n % Len(DigitChars)) + 1]>>

\* the ranges a Meter is given; the first is the default range
DefaultRange == <<0, 100>>
MeterRanges == {DefaultRange, <<0, 50>>, <<50, 100>>}

\* the test's render function with the value text used for the bar's width
MeterChildren_WidthFromText(renderProps) ==
  [value |-> renderProps.valueText, barWidth |-> renderProps.valueText \o <<"%">>]

\* the render function the test gives the Meter
MeterChildren(renderProps) ==
  [value |-> renderProps.valueText,
   barWidth |-> ToDigits(renderProps.percentage) \o <<"%">>]

\* Meter: the value clamped to the range, its percentage of the range, and the
\* percentage formatted as text
Meter(props) ==
  LET value == IF props.value < props.minValue THEN props.minValue
               ELSE IF props.value > props.maxValue THEN props.maxValue
               ELSE props.value
      percentage == ((value - props.minValue) * 100) \div (props.maxValue - props.minValue)
      valueText == ToDigits(percentage) \o <<"%">>
      children == MeterChildren([percentage |-> percentage, valueText |-> valueText])
  IN [role |-> "meter", ariaValueNow |-> ToDigits(value),
      value |-> children.value, barWidth |-> children.barWidth]

MeterPropsSet ==
  {[value |-> v, minValue |-> r[1], maxValue |-> r[2]] :
     v \in 0..DefaultRange[2], r \in MeterRanges}

RenderMeter ==
  /\ meter = NoMeter
  /\ meter' = Meter(meterProps)
  /\ UNCHANGED <<meterProps, tableVars, viewVars, pickerVars, selectVars>>

\* the value prop changes and the Meter renders again
UpdateMeter ==
  \E v \in meterProps.minValue..meterProps.maxValue :
    /\ meter # NoMeter
    /\ meterProps' = [meterProps EXCEPT !.value = v]
    /\ meter' = Meter(meterProps')
    /\ UNCHANGED <<tableVars, viewVars, pickerVars, selectVars>>

MeterInit ==
  /\ TableIdle /\ ViewIdle /\ PickerIdle /\ SelectIdle
  /\ meterProps \in {q \in MeterPropsSet : q.value \in q.minValue..q.maxValue}
  /\ meter = NoMeter

NextMeter == RenderMeter \/ UpdateMeter

SpecMeter == MeterInit /\ [][NextMeter]_vars

\* ------------------------------------------------------------------ Picker
MaxNodes == 2          \* children of a Picker
MaxItems == 3          \* items of a Section

ItemKeys == {"Aardvark", "Kangaroo", "Snake"}

ItemNode(key) == [type |-> "item", key |-> key, items |-> <<>>]
SectionNode(title, items) == [type |-> "section", key |-> title, items |-> items]

\* the Sections story with its items in another order
SectionsChildren_Reordered == <<SectionNode("Animals", <<"Kangaroo", "Aardvark", "Snake">>)>>

\* the children of the Sections story
SectionsChildren == <<SectionNode("Animals", <<"Aardvark", "Kangaroo", "Snake">>)>>

\* the children of DefaultPicker
DefaultChildren ==
  <<ItemNode("Short"), ItemNode("Normal"),
    ItemNode("This item is very long and word wraps poorly")>>

SeqsUpTo(S, n) == UNION {[1..k -> S] : k \in 0..n}

Distinct(q) == \A i, j \in 1..Len(q) : i # j => q[i] # q[j]

RECURSIVE Options(_)
\* the item keys of the collection, sections flattened, in document order
Options(nodes) ==
  IF nodes = <<>> THEN <<>>
  ELSE LET n == Head(nodes)
       IN (IF n.type = "section" THEN n.items ELSE <<n.key>>) \o Options(Tail(nodes))

RECURSIVE Groups(_)
\* the titles of the collection's sections, in document order
Groups(nodes) ==
  IF nodes = <<>> THEN <<>>
  ELSE LET n == Head(nodes)
       IN (IF n.type = "section" THEN <<n.key>> ELSE <<>>) \o Groups(Tail(nodes))

\* the listbox of an open Picker: a group for a Section, an option for an Item
ListBox(children) == [groups |-> Groups(children), options |-> Options(children)]

PickerNodes ==
  {ItemNode(k) : k \in ItemKeys}
    \cup {SectionNode("Animals", q) : q \in {r \in SeqsUpTo(ItemKeys, MaxItems) : Distinct(r)}}

PickerChildrenSet ==
  {c \in SeqsUpTo(PickerNodes, MaxNodes) : Distinct(Options(c)) /\ Len(Groups(c)) <= 1}

\* pressing the Picker's button: a closed Picker opens and focuses its listbox,
\* an open one closes and focus returns to the button
ClickButton ==
  /\ pickerOpen' = ~pickerOpen
  /\ listbox' = IF pickerOpen THEN NoListbox ELSE ListBox(pickerChildren)
  /\ activeElement' = IF pickerOpen THEN "button" ELSE "listbox"
  /\ UNCHANGED <<pickerChildren, tableVars, viewVars, meterVars, selectVars>>

\* ArrowDown in the open listbox moves focus to the next option
ArrowDownInListbox ==
  /\ pickerOpen /\ listbox.options # <<>>
  /\ \E i \in 1..Len(listbox.options) :
       /\ \/ activeElement = "listbox" /\ i = 1
          \/ i > 1 /\ activeElement = listbox.options[i - 1]
       /\ activeElement' = listbox.options[i]
  /\ UNCHANGED <<pickerChildren, pickerOpen, listbox, tableVars, viewVars, meterVars, selectVars>>

\* Escape closes the listbox
EscapeInListbox ==
  /\ pickerOpen
  /\ pickerOpen' = FALSE /\ listbox' = NoListbox /\ activeElement' = "button"
  /\ UNCHANGED <<pickerChildren, tableVars, viewVars, meterVars, selectVars>>

\* what Sections.play expects of the listbox after its click
PlayExpectations(lb, active) ==
  /\ \E i \in 1..Len(lb.groups) : lb.groups[i] = "Animals"
  /\ Len(lb.groups) = 1
  /\ Len(lb.options) = 3
  /\ lb.options[1] = "Aardvark"
  /\ lb.options[2] = "Kangaroo"
  /\ lb.options[3] = "Snake"
  /\ active = "listbox"

PickerInit ==
  /\ TableIdle /\ ViewIdle /\ MeterIdle /\ SelectIdle
  /\ pickerChildren \in PickerChildrenSet \cup {SectionsChildren, DefaultChildren}
  /\ pickerOpen = FALSE /\ listbox = NoListbox /\ activeElement = "body"

NextPicker == ClickButton \/ ArrowDownInListbox \/ EscapeInListbox

SpecPicker == PickerInit /\ [][NextPicker]_vars


\* -------------------------------------------------------------- SelectList
MaxListLen == 3        \* length of the arrays given as props.value

OptionValues == {"a", "b", "c"}

\* the values props.value takes in each mode
ValuesOf(multiple) ==
  IF multiple
    THEN {Undefined} \cup {ListValue(q) : q \in SeqsUpTo(OptionValues, MaxListLen)}
    ELSE {Undefined} \cup {Scalar(v) : v \in OptionValues}

\* this.state.value || []
ValueOrEmpty(value) == IF value.kind = "list" THEN value.list ELSE <<>>

\* Array.prototype.indexOf: the 0-based index of the first occurrence, or -1
indexOf(q, x) ==
  IF \E i \in 1..Len(q) : q[i] = x
    THEN (CHOOSE i \in 1..Len(q) : q[i] = x /\ \A j \in 1..(i - 1) : q[j] # x) - 1
    ELSE 0 - 1

\* Array.prototype.slice(from, to) with its treatment of negative and large
\* indices
slice(q, from, to) ==
  LET norm(k) == IF k < 0 THEN Max(Len(q) + k, 0) ELSE IF k > Len(q) THEN Len(q) ELSE k
      a == norm(from)
      b == norm(to)
  IN IF a >= b THEN <<>> ELSE [j \in 1..(b - a) |-> q[a + j]]

addSelection(value, option) == ListValue(ValueOrEmpty(value) \o <<option>>)

\* removeSelection dropping everything from the option on
removeSelection_DropsRest(value, option) ==
  LET v == ValueOrEmpty(value)
  IN ListValue(slice(v, 0, indexOf(v, option)))

removeSelection(value, option) ==
  LET v == ValueOrEmpty(value)
      index == indexOf(v, option)
  IN ListValue(slice(v, 0, index) \o slice(v, index + 1, Len(v)))

isSelected(props, value, option) ==
  IF props.multiple
    THEN value.kind # "undefined" /\ indexOf(ValueOrEmpty(value), option) >= 0
    ELSE value = Scalar(option)

\* the nextOptions handleSelect computes
handleSelect(props, value, option) ==
  IF props.multiple
    THEN IF isSelected(props, value, option)
           THEN removeSelection(value, option)
           ELSE addSelection(value, option)
    ELSE Scalar(option)

\* a ListItem is selected: handleSelect sets the state when the component is
\* uncontrolled and passes nextOptions to onChange
HandleSelect ==
  \E option \in OptionValues :
    LET nextOptions == handleSelect(slProps, slValue, option)
    IN /\ slValue' = IF ~slProps.hasValue THEN nextOptions ELSE slValue
       /\ slLast' = [op |-> "select", option |-> option, next |-> nextOptions]
       /\ UNCHANGED <<slProps, tableVars, viewVars, meterVars, pickerVars>>

\* componentWillReceiveProps: the parent of a controlled SelectList renders it
\* with a value
ReceiveProps ==
  \E v \in ValuesOf(slProps.multiple) :
    /\ slProps.hasValue
    /\ slProps' = [slProps EXCEPT !.value = v]
    /\ slValue' = IF v.kind # "undefined" THEN v ELSE slValue
    /\ slLast' = [op |-> "props", option |-> "", next |-> Undefined]
    /\ UNCHANGED <<tableVars, viewVars, meterVars, pickerVars>>

\* the constructor: this.state.value is props.value
SelectInit ==
  /\ TableIdle /\ ViewIdle /\ MeterIdle /\ PickerIdle
  /\ \E multiple \in BOOLEAN, hasValue \in BOOLEAN :
       \E v \in (IF hasValue THEN ValuesOf(multiple) ELSE {Undefined}) :
         slProps = [multiple |-> multiple, hasValue |-> hasValue, value |-> v]
  /\ slValue = slProps.value
  /\ slLast = NoSelect

NextSelect == HandleSelect \/ ReceiveProps

SpecSelect == SelectInit /\ [][NextSelect]_vars

\* ------------------------------------------------------------------ claims
Count(fn, cs) == Cardinality({i \in 1..Len(cs) : cs[i].fn = fn})

InputLosesFocus == focus = "input" /\ focus' # "input"

\* C1: onResizeStart is called only when no session it announced is still
\* open (the last of onResizeStart / onResizeEnd called was onResizeEnd, or
\* none was called yet), and at most once per event.
C1_StartOncePerSession ==
  [][Count("onResizeStart", calls') > 0
       => ~cbOpen /\ Count("onResizeStart", calls') = 1]_vars

\* a start request arrives while a session is open (an arrow key in edit
\* mode) and resizes without announcing a second start
C1_Witness ==
  /\ event.type = "keydown" /\ event.key = "ArrowRight"
  /\ cbOpen /\ isResizing
  /\ Count("onResizeStart", calls) = 0
  /\ Count("onResize", calls) = 1

\* C2: a step that ends an active session calls onResizeEnd exactly once;
\* onResizeEnd is called only while a session is active, only by the input
\* losing focus, a mouse move end or a virtual press while a column is being
\* resized; and onResizeEnd has never been called more often than
\* onResizeStart.
C2_EndOncePerSession ==
  [][/\ (isResizing /\ ~isResizing') => Count("onResizeEnd", calls') = 1
     /\ Count("onResizeEnd", calls') > 0
          => /\ isResizing /\ ~isResizing'
             /\ Count("onResizeEnd", calls') = 1
             /\ \/ InputLosesFocus
                \/ event'.type = "moveend" /\ event'.pointerType = "mouse"
                \/ /\ event'.type = "pressstart" /\ event'.pointerType = "virtual"
                   /\ resizingColumn # NoKey
     /\ balance >= 0 /\ balance' >= 0]_vars

\* a virtual press ended the session: one onResizeEnd, nothing left active
C2_Witness ==
  /\ event.type = "pressstart" /\ event.pointerType = "virtual"
  /\ Count("onResizeEnd", calls) = 1
  /\ ~isResizing /\ balance = 0

\* the event delivered a move with a non-zero effective horizontal delta
EffectiveMove ==
  \/ event.type = "move" /\ event.deltaX # 0
  \/ /\ event.type = "keydown" /\ isKeyboardNavigationDisabled
     /\ event.key \in {"ArrowLeft", "ArrowRight", "ArrowUp", "ArrowDown"}

\* C3: a move with a non-zero effective horizontal delta, and a change of the
\* hidden input, calls onResize exactly once; every onResize call directly
\* follows a state.onColumnResize call and passes the map that call returned;
\* a pointer move with no horizontal delta calls onResize not at all.
C3_ResizeReportsNewSizes ==
  /\ (EffectiveMove \/ event.type = "change") => Count("onResize", calls) = 1
  /\ (event.type = "move" /\ event.deltaX = 0) => Count("onResize", calls) = 0
  /\ \A i \in 1..Len(calls) :
       calls[i].fn = "onResize"
         => /\ i > 1
            /\ calls[i - 1].fn = "state.onColumnResize"
            /\ calls[i].map = calls[i - 1].map

\* a move below the column's minimum: onResize got the clamped sizes
C3_Witness ==
  /\ event.type = "move" /\ event.deltaX # 0
  /\ Count("onResize", calls) = 1
  /\ columnResizeWidthRef < MinColumnWidth
  /\ calls[Len(calls)].map = <<widths>>
  /\ widths[Item] = MinColumnWidth

EndEditKey == event'.type = "keydown" /\ isKeyboardNavigationDisabled
              /\ event'.key \in {"Escape", "Enter", " ", "Tab"}

VirtualPressWhileResizing == event'.type = "pressstart" /\ event'.pointerType = "virtual"
                             /\ resizingColumn # NoKey

CompletedPointerPress == event'.type = "press" /\ event'.pointerType \in {"mouse", "pen"}

\* C4 as stated: with triggerRef, an end-of-edit key in edit mode, a virtual
\* press while a column is being resized and a completed mouse/pen press each
\* focus the trigger (the virtual press also ends the session); without
\* triggerRef none of them moves focus.
C4_Original ==
  [][/\ triggerRef => /\ EndEditKey => focus' = "trigger"
                      /\ VirtualPressWhileResizing => focus' = "trigger" /\ ~isResizing'
                      /\ CompletedPointerPress => focus' = "trigger"
     /\ ~triggerRef => (EndEditKey \/ VirtualPressWhileResizing \/ CompletedPointerPress
                          => focus' = focus)]_vars

\* C4 amended: the same, for a virtual press with no modifier key held.
C4_FocusReturnsToTrigger ==
  [][/\ triggerRef => /\ EndEditKey => focus' = "trigger"
                      /\ (VirtualPressWhileResizing /\ ~event'.modified)
                           => focus' = "trigger" /\ ~isResizing'
                      /\ CompletedPointerPress => focus' = "trigger"
     /\ ~triggerRef => (EndEditKey \/ VirtualPressWhileResizing \/ CompletedPointerPress
                          => focus' = focus)]_vars

\* a virtual press ended a session and focus is on the trigger
C4_Witness ==
  /\ triggerRef
  /\ event.type = "pressstart" /\ event.pointerType = "virtual" /\ ~event.modified
  /\ Count("onResizeEnd", calls) = 1
  /\ focus = "trigger"

\* C5: whenever the resizer's input loses focus, isInResizeMode is false
\* afterwards.
C5_ResizeModeEndsWithFocus ==
  [][InputLosesFocus => ~isInResizeMode']_vars

\* C10: a step in which the hidden input loses focus leaves no session active
\* (isResizing false, lastSize null) and keyboard navigation enabled.
C10_BlurLeavesIdle ==
  [][InputLosesFocus
       => ~isResizing' /\ lastSize' = <<>> /\ ~isKeyboardNavigationDisabled']_vars

\* the input was blurred while a pointer drag was resizing the column
C10_Witness ==
  /\ event.type = "blur"
  /\ Count("onResizeEnd", calls) = 1
  /\ ~isResizing /\ lastSize = <<>> /\ ~isKeyboardNavigationDisabled
  /\ moving # "none"


SectionCount(children) == Cardinality({i \in 1..Len(children) : children[i].type = "section"})
RECURSIVE ItemCount(_)
ItemCount(children) ==
  IF children = <<>> THEN 0
  ELSE (IF Head(children).type = "section" THEN Len(Head(children).items) ELSE 1)
       + ItemCount(Tail(children))

\* the keys of the Items a child declares, in their order
ItemsOf(node) == IF node.type = "section" THEN node.items ELSE <<node.key>>

\* Item x is declared before Item y among the children
DeclaredBefore(children, x, y) ==
  \E i, j \in 1..Len(children) :
    \E a \in 1..Len(ItemsOf(children[i])), b \in 1..Len(ItemsOf(children[j])) :
      /\ ItemsOf(children[i])[a] = x
      /\ ItemsOf(children[j])[b] = y
      /\ i < j \/ (i = j /\ a < b)

C9_NoResizerForParentColumns ==
  (view # NoView
   /\ (viewType # "column" \/ viewItem.hasChildNodes \/ viewItem.isSelectionCell
       \/ viewItem.hideHeader))
    => /\ view.component # "ResizableTableColumnHeader"
       /\ "Resizer" \notin Elements(view.component)
       /\ "Menu" \notin Elements(view.component)

\* a column with child columns that asks for resizing got a plain header
C9_Witness ==
  /\ viewType = "column"
  /\ viewItem.hasChildNodes /\ viewItem.allowsResizing
  /\ ~viewItem.hideHeader /\ ~viewItem.isSelectionCell
  /\ view.component = "TableColumnHeader"
  /\ view.warned

\* the event is the end of a move gesture of the given pointer types
MoveEndOf(types) == event'.type = "moveend" /\ event'.pointerType \in types

\* an arrow key in edit mode: a complete keyboard move, its end included
KeyboardMove ==
  /\ event'.type = "keydown" /\ isKeyboardNavigationDisabled
  /\ event'.key \in {"ArrowLeft", "ArrowRight", "ArrowUp", "ArrowDown"}

EndCalls(cs) == Count("state.onColumnResizeEnd", cs) + Count("onResizeEnd", cs)

\* C11: the end of a mouse move leaves no session active, and ends the one
\* that was; the end of a touch or pen move leaves the session as it was and
\* a keyboard move leaves it active, both without state.onColumnResizeEnd and
\* onResizeEnd; and a session only stops being active at a mouse move end,
\* when the input loses focus or at a virtual press.
C11_OnlyMouseMoveEndEnds ==
  [][/\ MoveEndOf({"mouse"})
          => ~isResizing' /\ (isResizing => Count("onResizeEnd", calls') = 1)
     /\ MoveEndOf({"touch", "pen"})
          => isResizing' = isResizing /\ EndCalls(calls') = 0
     /\ KeyboardMove => isResizing' /\ EndCalls(calls') = 0
     /\ (isResizing /\ ~isResizing')
          => \/ MoveEndOf({"mouse"})
             \/ InputLosesFocus
             \/ event'.type = "pressstart" /\ event'.pointerType = "virtual"]_vars

\* a touch move has ended and its session is still active and unannounced as
\* ended
C11_Witness ==
  /\ event.type = "moveend" /\ event.pointerType = "touch"
  /\ isResizing /\ cbOpen /\ resizingColumn = Item
  /\ calls = <<>>

\* C12: the map passed to onResizeEnd is the map last passed to onResizeStart
\* or onResize before it, which is a result of state.onColumnResize (the
\* state's widths) and not empty; while a session is active lastSize holds
\* that map.
C12_EndReportsLatestSizes ==
  [][/\ \A i \in 1..Len(calls') :
          calls'[i].fn = "onResizeEnd"
            => /\ calls'[i].map = reported
               /\ calls'[i].map = <<widths>>
               /\ calls'[i].map # <<>>
     /\ isResizing' => lastSize' = reported' /\ reported' = <<widths'>>]_vars

\* a session that resized the column after its start was ended by a mouse
\* move end, with the sizes of the resize
C12_Witness ==
  /\ event.type = "moveend" /\ event.pointerType = "mouse"
  /\ Count("onResizeEnd", calls) = 1
  /\ calls[Len(calls)].map = <<widths>>
  /\ widths[Item] # MinColumnWidth + ChangeStep

\* the calls of startResize when it starts a session end at position i
StartCallsAt(cs, i, width) ==
  /\ i >= 3
  /\ cs[i - 2].fn = "state.onColumnResize"
  /\ cs[i - 2].key = Item /\ cs[i - 2].width = width
  /\ cs[i - 1].fn = "state.onColumnResizeStart" /\ cs[i - 1].key = Item
  /\ cs[i].fn = "onResizeStart" /\ cs[i].map = cs[i - 2].map

\* the hook is asked to start a session: Enter outside edit mode, an arrow
\* key in edit mode, the first movement of a pointer gesture
StartRequested ==
  \/ event'.type = "keydown" /\ event'.key = "Enter" /\ ~isKeyboardNavigationDisabled
  \/ KeyboardMove
  \/ event'.type = "move" /\ moving = "none"

\* the hook is asked to end a session: the input loses focus, a mouse move
\* ends, a virtual press without modifier key while a column is being resized
EndRequested ==
  \/ InputLosesFocus
  \/ MoveEndOf({"mouse"})
  \/ VirtualPressWhileResizing /\ ~event'.modified

SessionCalls ==
  {"state.onColumnResize", "state.onColumnResizeStart", "onResizeStart",
   "state.onColumnResizeEnd", "onResizeEnd"}

StartCalls == {"state.onColumnResizeStart", "onResizeStart"}

\* what C13 says of starting and of ending an active session, and of a start
\* request while a session is active
StartAndEndOrder ==
  /\ (StartRequested /\ ~isResizing)
       => /\ Len(calls') >= 3 /\ StartCallsAt(calls', 3, widths[Item])
          /\ Count("onResizeStart", calls') = 1
  /\ \A i \in 1..Len(calls') :
       /\ calls'[i].fn = "onResizeStart" => StartCallsAt(calls', i, widths[Item])
       /\ calls'[i].fn = "onResizeEnd"
            => i > 1 /\ calls'[i - 1].fn = "state.onColumnResizeEnd"
       /\ calls'[i].fn = "state.onColumnResizeEnd"
            => i < Len(calls') /\ calls'[i + 1].fn = "onResizeEnd"
  /\ (EndRequested /\ isResizing)
       => Count("state.onColumnResizeEnd", calls') = 1 /\ Count("onResizeEnd", calls') = 1
  /\ (StartRequested /\ isResizing)
       => /\ \A i \in 1..Len(calls') : calls'[i].fn \notin StartCalls
          /\ event'.key = "Enter" => calls' = <<>>

\* C13 as stated: the order of the calls, and an end request while no session
\* is active calls none of the state transitions and callbacks.
C13_Original ==
  [][/\ StartAndEndOrder
     /\ (EndRequested /\ ~isResizing)
          => \A i \in 1..Len(calls') : calls'[i].fn \notin SessionCalls]_vars

\* C13 amended: the order of the calls, and an end request while no session
\* is active calls neither state.onColumnResizeStart, onResizeStart,
\* state.onColumnResizeEnd nor onResizeEnd, but every run of endResize that
\* finds lastSize null calls state.onColumnResize(key, current width) (one
\* run for a blur and for a mouse move end).
C13_StartAndEndCallOrder ==
  [][/\ StartAndEndOrder
     /\ (EndRequested /\ ~isResizing)
          => /\ \A i \in 1..Len(calls') :
                  /\ calls'[i].fn \in SessionCalls
                       => calls'[i].fn = "state.onColumnResize"
                  /\ calls'[i].fn = "state.onColumnResize"
                       => calls'[i].key = Item /\ calls'[i].width = widths[Item]
             /\ lastSize = <<>> => Count("state.onColumnResize", calls') >= 1
             /\ event'.type \in {"blur", "moveend"}
                  => Count("state.onColumnResize", calls')
                       = (IF lastSize = <<>> THEN 1 ELSE 0)]_vars

\* the input lost focus while no session was active: the state was asked for
\* the sizes at the current width and nothing was announced
C13_Witness ==
  /\ event.type = "blur"
  /\ Len(calls) = 1
  /\ calls[1].fn = "state.onColumnResize" /\ calls[1].width = widths[Item]
  /\ ~isResizing /\ lastSize = <<>>

\* C14: in multiple mode handleSelect's next value is the current value (the
\* empty list when it is missing) with the first occurrence of the option's
\* value taken out, one element fewer and the others in their order, when the
\* value is in it, and with the value appended at the end otherwise; in
\* single mode it is the option's value, selected before or not.
C14_HandleSelectToggles ==
  [][slLast'.op = "select"
       => LET o == slLast'.option
              next == slLast'.next
              cur == IF slValue.kind = "list" THEN slValue.list ELSE <<>>
          IN IF slProps.multiple
               THEN /\ next.kind = "list"
                    /\ IF \E i \in 1..Len(cur) : cur[i] = o
                         THEN /\ Len(next.list) = Len(cur) - 1
                              /\ \E i \in 1..Len(cur) :
                                   /\ cur[i] = o
                                   /\ \A j \in 1..Len(next.list) :
                                        next.list[j] = IF j < i THEN cur[j] ELSE cur[j + 1]
                         ELSE next.list = Append(cur, o)
               ELSE next.kind = "scalar" /\ next.scalar = o]_vars

\* an uncontrolled multiple SelectList: the middle one of three selected
\* values was selected again and taken out
C14_Witness ==
  /\ slProps.multiple /\ ~slProps.hasValue
  /\ slLast.op = "select" /\ slLast.option = "b"
  /\ slLast.next.list = <<"a", "c">>
  /\ slValue.list = <<"a", "c">>

====
